---- MODULE Spec2Model ----
(***************************************************************************)
(* A model of the crossword CSP solver, src/3.optimization/crossword/      *)
(* generate.py (class CrosswordCreator).                                    *)
(*                                                                         *)
(* The state is one CrosswordCreator object (its crossword and its         *)
(* domains) together with the call stack of the method that is running     *)
(* on it.  A slot (crossword Variable) is named by a string, a word is a   *)
(* sequence of letters, and Python's 0-based subscript w[i] is Char(w, i). *)
(* Python iterates a set in an order the program does not control (string  *)
(* hashes are salted per process), so every iteration over a set whose     *)
(* order can be observed is a choice among all orders.                     *)
(*                                                                         *)
(* The module also holds the functions of the tic-tac-toe player,          *)
(* src/0.search/tictactoe/tictactoe.py, on a board of their own, and the   *)
(* Minesweeper player, src/1.knowledge/minesweeper/minesweeper.py.         *)
(***************************************************************************)
EXTENDS Integers, Sequences, FiniteSets, TLC

VARIABLES
    crossword,  \* self.crossword: variables, their lengths, overlaps, words
    domains,    \* self.domains: slot -> set of words
    stack,      \* call stack of the running method, innermost frame last
    returned,   \* value handed back by the call that returned last
    call,       \* the client's current (or last) call on the object
    board,      \* the tic-tac-toe board being played on
    move,       \* the last call of result on it
    field,      \* the Minesweeper game: its mines, and the cells revealed
    ai,         \* the MinesweeperAI object
    safe_move   \* what make_safe_move returned last

vars == <<crossword, domains, stack, returned, call, board, move,
          field, ai, safe_move>>

tictactoe == <<board, move>>

minesweeper == <<field, ai, safe_move>>

(***************************************************************************)
(* Bounds and input data                                                   *)
(***************************************************************************)
\* The most words a word list has, and the most when the structure is Ring.
MaxWords == 4

MaxRingWords == 2

Alphabet == {"a", "b"}

\* The words a word list is drawn from: every word of 2 letters, and every
\* word of 3 letters with "a" in the middle (no overlap of the structures
\* below falls on the middle cell of a slot of 3 cells).
Vocabulary ==
    {<<p, q>> : p \in Alphabet, q \in Alphabet}
        \cup {<<p, "a", q>> : p \in Alphabet, q \in Alphabet}

WordLists == {W \in SUBSET Vocabulary : Cardinality(W) <= MaxWords}

RingWordLists == {W \in SUBSET Vocabulary : Cardinality(W) <= MaxRingWords}

\* overlaps[x, y] of the Crossword class: the pair (i, j) when cell i of x
\* is cell j of y, and None (here <<>>) when x and y share no cell.
MakeOverlaps(V, crossings) ==
    [p \in {q \in V \X V : q[1] # q[2]} |->
        IF \E c \in crossings : c[1] = p[1] /\ c[2] = p[2]
        THEN LET c == CHOOSE c \in crossings : c[1] = p[1] /\ c[2] = p[2]
             IN  <<c[3], c[4]>>
        ELSE IF \E c \in crossings : c[1] = p[2] /\ c[2] = p[1]
        THEN LET c == CHOOSE c \in crossings : c[1] = p[2] /\ c[2] = p[1]
             IN  <<c[4], c[3]>>
        ELSE <<>>]

Structure(V, len, crossings) ==
    [variables |-> V, length |-> len, overlaps |-> MakeOverlaps(V, crossings)]

\* One isolated across slot of two cells.
Single == Structure({"A"}, [v \in {"A"} |-> 2], {})

\* A (across, row 0, columns 0-1) and B (down, column 0, rows 0-1) share the
\* corner cell: overlap (0, 0).
Corner == Structure({"A", "B"}, [v \in {"A", "B"} |-> 2], {<<"A", "B", 0, 0>>})

\* A (across, row 0, columns 0-1) and B (down, column 0, rows 0-2) share the
\* corner cell: overlap (0, 0) between slots of different lengths.
Hook ==
    Structure({"A", "B"}, [v \in {"A", "B"} |-> IF v = "B" THEN 3 ELSE 2],
              {<<"A", "B", 0, 0>>})

\* A (across, row 0, columns 0-1), B (down, column 1, rows 0-2) and
\* C (across, row 2, columns 1-2): A's last cell is B's first, C's first
\* cell is B's last.
Path ==
    Structure({"A", "B", "C"},
              [v \in {"A", "B", "C"} |-> IF v = "B" THEN 3 ELSE 2],
              {<<"A", "B", 1, 0>>, <<"C", "B", 0, 2>>})

\* The 2 x 2 block: A and C across (rows 0 and 1), B and D down (columns 0
\* and 1).
Ring ==
    Structure({"A", "B", "C", "D"},
              [v \in {"A", "B", "C", "D"} |-> 2],
              {<<"A", "B", 0, 0>>, <<"A", "D", 1, 0>>,
               <<"C", "B", 0, 1>>, <<"C", "D", 1, 1>>})

Puzzle(s, W) ==
    [variables |-> s.variables, length |-> s.length,
     overlaps |-> s.overlaps, words |-> W]

(***************************************************************************)
(* Helpers                                                                 *)
(***************************************************************************)
Char(w, i) == w[i + 1]

\* Every order in which the elements of the set S can be iterated.
Orderings(S) ==
    {s \in [1..Cardinality(S) -> S] :
        \A a, b \in 1..Cardinality(S) : a # b => s[a] # s[b]}

RECURSIVE Flatten(_)
Flatten(ss) == IF ss = <<>> THEN <<>> ELSE Head(ss) \o Flatten(Tail(ss))

Top == stack[Len(stack)]

Pop == SubSeq(stack, 1, Len(stack) - 1)

\* Python values that the methods return.
EmptyAssignment == [v \in {} |-> <<>>]

NoneVal == [kind |-> "None", bool |-> FALSE, dict |-> EmptyAssignment]

BoolVal(b) == [kind |-> "bool", bool |-> b, dict |-> EmptyAssignment]

DictVal(a) == [kind |-> "dict", bool |-> FALSE, dict |-> a]

\* Python's truth value of a returned value (`if inference:`).
Truthy(v) ==
    \/ v.kind = "bool" /\ v.bool
    \/ v.kind = "dict" /\ DOMAIN v.dict # {}

\* `result is not False`.
IsNotFalse(v) == ~(v.kind = "bool" /\ ~v.bool)

\* crossword.neighbors(var): the slots that overlap var.
Neighbors(var) ==
    {v \in crossword.variables \ {var} : crossword.overlaps[<<v, var>>] # <<>>}

(***************************************************************************)
(* __init__                                                                *)
(***************************************************************************)
InitialDomains(cw) == [var \in cw.variables |-> cw.words]

(***************************************************************************)
(* enforce_node_consistency                                                *)
(*                                                                         *)
(* set.remove raises KeyError when the word is not in the domain.  The     *)
(* slots visited before the failing one have lost their wrong-length       *)
(* words, the failing slot has lost the wrong-length words that came       *)
(* before the missing one.                                                 *)
(***************************************************************************)
WrongLength(var) == {word \in crossword.words : Len(word) # crossword.length[var]}

\* A variant that removes from the domain it is iterating over: Python
\* raises RuntimeError at the first removal.
EnforceNodeConsistencyWhileIterating(d) ==
    LET failing == {var \in crossword.variables : WrongLength(var) \cap d[var] # {}}
    IN  IF failing = {}
        THEN {[raised |-> FALSE, domains |-> d]}
        ELSE {[raised |-> TRUE, domains |-> [d EXCEPT ![t[1]] = d[t[1]] \ {t[2]}]] :
                t \in {u \in failing \X crossword.words :
                        u[2] \in WrongLength(u[1]) \cap d[u[1]]}}

\* A variant that tests `len(word) < var.length`: the longer words stay.
EnforceNodeConsistencyShorter(d) ==
    {[raised |-> FALSE,
      domains |-> [var \in crossword.variables |->
                     d[var] \ {word \in crossword.words :
                                 Len(word) < crossword.length[var]}]]}

EnforceNodeConsistency(d) ==
    LET failing == {var \in crossword.variables : ~(WrongLength(var) \subseteq d[var])}
    IN  IF failing = {}
        THEN {[raised |-> FALSE,
               domains |-> [var \in crossword.variables |-> d[var] \ WrongLength(var)]]}
        ELSE {[raised |-> TRUE,
               domains |-> [var \in crossword.variables |->
                              IF var \in t[2] THEN d[var] \ WrongLength(var)
                              ELSE IF var = t[1] THEN d[var] \ t[3]
                              ELSE d[var]]] :
                t \in {u \in failing \X (SUBSET (crossword.variables \ failing))
                               \X (SUBSET crossword.words) :
                        u[3] \subseteq (WrongLength(u[1]) \cap d[u[1]])}}

\* Every word of every domain has its slot's length.
NodeConsistent(d) ==
    \A var \in crossword.variables : \A word \in d[var] :
        Len(word) = crossword.length[var]

(***************************************************************************)
(* revise                                                                  *)
(***************************************************************************)
\* A variant that rebuilds domains[x] from domains[y].
ReviseFromY(d, x, y) ==
    LET overlap == crossword.overlaps[<<x, y>>]
        words_remove ==
            IF overlap # <<>>
            THEN {word_x \in d[x] :
                    ~\E word_y \in d[y] :
                        Char(word_x, overlap[1]) = Char(word_y, overlap[2])}
            ELSE {}
    IN  [revised |-> words_remove # {},
         domains |-> [d EXCEPT ![x] = IF words_remove # {}
                                      THEN d[y] \ words_remove ELSE d[x]]]

\* A variant that asks every word of domains[y] to agree (all for any).
ReviseAll(d, x, y) ==
    LET overlap == crossword.overlaps[<<x, y>>]
        words_remove ==
            IF overlap # <<>>
            THEN {word_x \in d[x] :
                    ~\A word_y \in d[y] :
                        Char(word_x, overlap[1]) = Char(word_y, overlap[2])}
            ELSE {}
    IN  [revised |-> words_remove # {},
         domains |-> [d EXCEPT ![x] = d[x] \ words_remove]]

\* A variant that tests `if any(overlap)`: the overlap (0, 0) counts as none.
ReviseZeroIsNone(d, x, y) ==
    LET overlap == crossword.overlaps[<<x, y>>]
        words_remove ==
            IF overlap # <<>> /\ overlap # <<0, 0>>
            THEN {word_x \in d[x] :
                    ~\E word_y \in d[y] :
                        Char(word_x, overlap[1]) = Char(word_y, overlap[2])}
            ELSE {}
    IN  [revised |-> words_remove # {},
         domains |-> [d EXCEPT ![x] = d[x] \ words_remove]]

\* A variant that removes the words with a match in domains[y].
ReviseSupported(d, x, y) ==
    LET overlap == crossword.overlaps[<<x, y>>]
        words_remove ==
            IF overlap # <<>>
            THEN {word_x \in d[x] :
                    \E word_y \in d[y] :
                        Char(word_x, overlap[1]) = Char(word_y, overlap[2])}
            ELSE {}
    IN  [revised |-> words_remove # {},
         domains |-> [d EXCEPT ![x] = d[x] \ words_remove]]

Revise(d, x, y) ==
    LET overlap == crossword.overlaps[<<x, y>>]
        words_remove ==
            IF overlap # <<>>
            THEN {word_x \in d[x] :
                    ~\E word_y \in d[y] :
                        Char(word_x, overlap[1]) = Char(word_y, overlap[2])}
            ELSE {}
    IN  [revised |-> words_remove # {},
         domains |-> [d EXCEPT ![x] = d[x] \ words_remove]]

(***************************************************************************)
(* ac3                                                                     *)
(***************************************************************************)
ArcsOf(x) == {<<x, y>> : y \in Neighbors(x)}

AllArcs == UNION {ArcsOf(x) : x \in crossword.variables}

\* arcs is None: the generator visits the slots in some order and, for each
\* slot, its neighbours in some order.
GeneratedArcs ==
    {Flatten([k \in 1..Cardinality(crossword.variables) |-> f[vo[k]]]) :
        vo \in Orderings(crossword.variables),
        f \in {g \in [crossword.variables ->
                        UNION {Orderings(ArcsOf(x)) : x \in crossword.variables}] :
                 \A x \in crossword.variables : g[x] \in Orderings(ArcsOf(x))}}

\* Variants: nothing is appended; the arcs are appended the wrong way round.
RequeueNothing(x, y) == {<<>>}

RequeueReversed(x, y) == Orderings({<<x, z>> : z \in Neighbors(x) \ {y}})

\* The arcs appended after revise(x, y) shrank domains[x].
Requeue(x, y) == Orderings({<<z, x>> : z \in Neighbors(x) \ {y}})

\* A variant with the test inverted.
DomainNotEmpty(d, x) == d[x] # {}

\* `if not self.domains[x]`.
DomainEmpty(d, x) == d[x] = {}

\* A variant that leaves the arc in the queue when revise removed nothing.
Ac3BodyKeepsArc(d, q) ==
    LET x == Head(q)[1]
        y == Head(q)[2]
        r == Revise(d, x, y)
    IN  IF r.revised
        THEN IF DomainEmpty(r.domains, x)
             THEN {[ret |-> "False", domains |-> r.domains, queue |-> Tail(q)]}
             ELSE {[ret |-> "none", domains |-> r.domains, queue |-> Tail(q) \o s] :
                      s \in Requeue(x, y)}
        ELSE {[ret |-> "none", domains |-> d, queue |-> q]}

\* A variant that appends (y, x) with the others.
Ac3BodyWithY(d, q) ==
    LET x == Head(q)[1]
        y == Head(q)[2]
        r == Revise(d, x, y)
    IN  IF r.revised
        THEN IF DomainEmpty(r.domains, x)
             THEN {[ret |-> "False", domains |-> r.domains, queue |-> Tail(q)]}
             ELSE {[ret |-> "none", domains |-> r.domains, queue |-> Tail(q) \o s] :
                      s \in Orderings({<<z, x>> : z \in Neighbors(x)})}
        ELSE {[ret |-> "none", domains |-> d, queue |-> Tail(q)]}

\* One iteration of the while loop on a non-empty queue: the configurations
\* it can leave.  ret = "False" is `return False`.
Ac3Body(d, q) ==
    LET x == Head(q)[1]
        y == Head(q)[2]
        r == Revise(d, x, y)
    IN  IF r.revised
        THEN IF DomainEmpty(r.domains, x)
             THEN {[ret |-> "False", domains |-> r.domains, queue |-> Tail(q)]}
             ELSE {[ret |-> "none", domains |-> r.domains, queue |-> Tail(q) \o s] :
                      s \in Requeue(x, y)}
        ELSE {[ret |-> "none", domains |-> d, queue |-> Tail(q)]}

\* The whole call ac3(arcs) on domains d: every outcome it can have.
RECURSIVE Ac3(_, _)
Ac3(d, q) ==
    IF q = <<>>
    THEN {[ok |-> TRUE, domains |-> d]}
    ELSE UNION {IF c.ret = "False"
                THEN {[ok |-> FALSE, domains |-> c.domains]}
                ELSE Ac3(c.domains, c.queue) : c \in Ac3Body(d, q)}

(***************************************************************************)
(* assignment_complete, consistent                                         *)
(***************************************************************************)
\* A variant that looks at the keys only.
AssignmentCompleteKeysOnly(assignment) ==
    \A var \in crossword.variables : var \in DOMAIN assignment

AssignmentComplete(assignment) ==
    \A var \in crossword.variables :
        var \in DOMAIN assignment /\ assignment[var] # <<>>

\* One iteration of the for loop of lines 172-180, for the item var_x:
\* "False" is `return False`, "IndexError" is word_y[j] on a word_y that has
\* no position j (the length of word_y has not been looked at when var_y
\* comes after var_x in the dictionary), "continue" is the next iteration.
\* The neighbours are visited in any order: the first one that does not
\* pass decides.
ConsistentBody(assignment, var_x) ==
    LET word_x == assignment[var_x]
        ys == Neighbors(var_x) \cap DOMAIN assignment
        Raises(var_y) ==
            crossword.overlaps[<<var_x, var_y>>][2] >= Len(assignment[var_y])
        Differs(var_y) ==
            /\ ~Raises(var_y)
            /\ Char(word_x, crossword.overlaps[<<var_x, var_y>>][1])
                  # Char(assignment[var_y], crossword.overlaps[<<var_x, var_y>>][2])
        stopping == {var_y \in ys : Raises(var_y) \/ Differs(var_y)}
    IN  IF crossword.length[var_x] # Len(word_x)
        THEN {"False"}
        ELSE IF stopping = {}
        THEN {"continue"}
        ELSE {IF Raises(var_y) THEN "IndexError" ELSE "False" : var_y \in stopping}

\* A variant that checks the lengths and not the shared letters.
ConsistentLengthOnly(assignment) ==
    \A var_x \in DOMAIN assignment :
        crossword.length[var_x] = Len(assignment[var_x])

Consistent(assignment) ==
    \A var_x \in DOMAIN assignment :
        ConsistentBody(assignment, var_x) = {"continue"}

(***************************************************************************)
(* order_domain_values, select_unassigned_variable                         *)
(***************************************************************************)
\* value_heuristic[word]: the number of words of the unassigned neighbours
\* that word rules out.
RECURSIVE SumOver(_, _)
SumOver(S, f) ==
    IF S = {} THEN 0
    ELSE LET e == CHOOSE e \in S : TRUE IN f[e] + SumOver(S \ {e}, f)

\* A variant that counts the words that agree (== for != on line 198).
ValueHeuristicAgreeing(d, var, assignment, word) ==
    LET ns == Neighbors(var) \ DOMAIN assignment
    IN  SumOver(ns,
                [n \in ns |->
                    LET overlap == crossword.overlaps[<<var, n>>]
                    IN  Cardinality({word_n \in d[n] :
                            Char(word, overlap[1]) = Char(word_n, overlap[2])})])

ValueHeuristic(d, var, assignment, word) ==
    LET ns == Neighbors(var) \ DOMAIN assignment
    IN  SumOver(ns,
                [n \in ns |->
                    LET overlap == crossword.overlaps[<<var, n>>]
                    IN  Cardinality({word_n \in d[n] :
                            Char(word, overlap[1]) # Char(word_n, overlap[2])})])

\* A variant that keys the dictionary by the count: one word is left for
\* each count.
OrderDomainValuesKeyedByCount(d, var, assignment) ==
    UNION {{s \in Orderings(T) :
              \A a, b \in 1..Len(s) :
                  a < b => ValueHeuristic(d, var, assignment, s[a])
                              <= ValueHeuristic(d, var, assignment, s[b])} :
           T \in {U \in SUBSET d[var] :
                    \A w \in d[var] :
                        Cardinality({u \in U :
                            ValueHeuristic(d, var, assignment, u)
                                = ValueHeuristic(d, var, assignment, w)}) = 1}}

\* sorted() is stable, so words with equal counts keep the order in which
\* the domain was iterated: any order.
OrderDomainValues(d, var, assignment) ==
    {s \in Orderings(d[var]) :
        \A a, b \in 1..Len(s) :
            a < b => ValueHeuristic(d, var, assignment, s[a])
                        <= ValueHeuristic(d, var, assignment, s[b])}

\* float('inf'): more than any domain holds.
Infinity == Cardinality(crossword.words) + 1

\* A variant of the test of line 222 without the tie-break on the degree.
BetterIgnoringDegree(num_var, degree, best) == num_var < best.min_num_var

\* Line 222: does the slot met replace the best one so far?
Better(num_var, degree, best) ==
    \/ num_var < best.min_num_var
    \/ num_var = best.min_num_var /\ degree > best.max_degree

\* The for loop of lines 217-225 from the k-th slot of order on; best holds
\* unassigned_var, min_num_var and max_degree.
RECURSIVE SelectLoop(_, _, _, _)
SelectLoop(d, order, k, best) ==
    IF k > Len(order)
    THEN best.unassigned_var
    ELSE LET var == order[k]
             num_var == Cardinality(d[var])
             degree == Cardinality(Neighbors(var))
         IN  IF Better(num_var, degree, best)
             THEN SelectLoop(d, order, k + 1,
                             [unassigned_var |-> var, min_num_var |-> num_var,
                              max_degree |-> degree])
             ELSE SelectLoop(d, order, k + 1, best)

\* The set difference is iterated in any order; "None" is Python's None.
SelectUnassignedVariable(d, assignment) ==
    {SelectLoop(d, order, 1,
                [unassigned_var |-> "None", min_num_var |-> Infinity,
                 max_degree |-> -1]) :
        order \in Orderings(crossword.variables \ DOMAIN assignment)}

Extend(assignment, var, value) ==
    [v \in DOMAIN assignment \cup {var} |-> IF v = var THEN value ELSE assignment[v]]

(***************************************************************************)
(* Frames and the client's call record                                     *)
(***************************************************************************)
\* A frame holds the locals of one activation: arcs and csp_queue of ac3;
\* assignment, var and the values still to be tried (the first is the
\* current value) of backtrack.  saved remembers the domains at the moment
\* the current value was taken up.
Frame(fn, pc) ==
    [fn |-> fn, pc |-> pc, arcs |-> <<>>, queue |-> <<>>,
     assignment |-> EmptyAssignment, var |-> "", values |-> <<>>,
     saved |-> domains]

SolveFrame == Frame("solve", "node")

Ac3Frame(arcs) == [Frame("ac3", "loop") EXCEPT !.arcs = arcs, !.queue = arcs]

BacktrackFrame(assignment) ==
    [Frame("backtrack", "start") EXCEPT !.assignment = assignment]

NewAssignment(f) == Extend(f.assignment, f.var, Head(f.values))

\* What the call before this one was: none (the object is freshly built),
\* an ac3 that returned False, or anything else.
Previous ==
    IF call.op = "init" THEN "init"
    ELSE IF call.op = "ac3" /\ call.status = "returned" /\ call.val = BoolVal(FALSE)
    THEN "ac3_false"
    ELSE "other"

NewCall(op, arcs) ==
    [op |-> op, arcs |-> arcs, assignment |-> EmptyAssignment,
     entry |-> domains, prev |-> Previous,
     status |-> "running", val |-> NoneVal]

Idle == stack = <<>>

Running(fn, pc) == stack # <<>> /\ Top.fn = fn /\ Top.pc = pc

SetTop(f) == [stack EXCEPT ![Len(stack)] = f]

\* `return v`: the frame is dropped and v goes to the caller, which is the
\* client when the frame is the outermost one.
Return(v) ==
    /\ stack' = Pop
    /\ returned' = v
    /\ call' = IF Len(stack) = 1
               THEN [call EXCEPT !.status = "returned", !.val = v]
               ELSE call

(***************************************************************************)
(* The client's calls                                                      *)
(***************************************************************************)
CallSolve ==
    /\ Idle
    /\ stack' = <<SolveFrame>>
    /\ call' = NewCall("solve", <<>>)
    /\ UNCHANGED <<tictactoe, minesweeper, crossword, domains, returned>>

CallEnforceNodeConsistency ==
    /\ Idle
    /\ \E o \in EnforceNodeConsistency(domains) :
          /\ domains' = o.domains
          /\ call' = [NewCall("enforce_node_consistency", <<>>) EXCEPT
                         !.status = IF o.raised THEN "raised" ELSE "returned"]
    /\ returned' = NoneVal
    /\ UNCHANGED <<tictactoe, minesweeper, crossword, stack>>

\* revise, ac3 and backtrack subscript the words by the overlap positions;
\* they are called on domains whose words have their slots' lengths.
CallRevise ==
    /\ Idle
    /\ NodeConsistent(domains)
    /\ \E x \in crossword.variables, y \in crossword.variables :
          /\ x # y
          /\ LET r == Revise(domains, x, y)
             IN  /\ domains' = r.domains
                 /\ returned' = BoolVal(r.revised)
                 /\ call' = [NewCall("revise", <<<<x, y>>>>) EXCEPT
                                !.status = "returned", !.val = BoolVal(r.revised)]
    /\ UNCHANGED <<tictactoe, minesweeper, crossword, stack>>

\* The arc lists handed to ac3: all arcs of the problem, or the arcs of one
\* slot, in any order.
ClientArcs ==
    Orderings(AllArcs) \cup UNION {Orderings(ArcsOf(x)) : x \in crossword.variables}

CallAc3 ==
    /\ Idle
    /\ NodeConsistent(domains)
    /\ \E arcs \in ClientArcs :
          /\ stack' = <<Ac3Frame(arcs)>>
          /\ call' = NewCall("ac3", arcs)
    /\ UNCHANGED <<tictactoe, minesweeper, crossword, domains, returned>>

CallBacktrack ==
    /\ Idle
    /\ NodeConsistent(domains)
    /\ stack' = <<BacktrackFrame(EmptyAssignment)>>
    /\ call' = NewCall("backtrack", <<>>)
    /\ UNCHANGED <<tictactoe, minesweeper, crossword, domains, returned>>

(***************************************************************************)
(* solve                                                                   *)
(***************************************************************************)
SolveNode ==
    /\ Running("solve", "node")
    /\ \E o \in EnforceNodeConsistency(domains) :
          /\ domains' = o.domains
          /\ IF o.raised
             THEN /\ stack' = <<>>
                  /\ call' = [call EXCEPT !.status = "raised"]
             ELSE /\ stack' = SetTop([Top EXCEPT !.pc = "ac3"])
                  /\ call' = call
    /\ UNCHANGED <<tictactoe, minesweeper, crossword, returned>>

SolveAc3 ==
    /\ Running("solve", "ac3")
    /\ \E arcs \in GeneratedArcs :
          stack' = Append(SetTop([Top EXCEPT !.pc = "backtrack"]), Ac3Frame(arcs))
    /\ UNCHANGED <<tictactoe, minesweeper, crossword, domains, returned, call>>

SolveBacktrack ==
    /\ Running("solve", "backtrack")
    /\ stack' = Append(SetTop([Top EXCEPT !.pc = "return"]),
                       BacktrackFrame(EmptyAssignment))
    /\ UNCHANGED <<tictactoe, minesweeper, crossword, domains, returned, call>>

SolveReturn ==
    /\ Running("solve", "return")
    /\ Return(returned)
    /\ UNCHANGED <<tictactoe, minesweeper, crossword, domains>>

(***************************************************************************)
(* ac3                                                                     *)
(***************************************************************************)
Ac3Iterate ==
    /\ Running("ac3", "loop")
    /\ Top.queue # <<>>
    /\ \E c \in Ac3Body(domains, Top.queue) :
          /\ domains' = c.domains
          /\ IF c.ret = "False"
             THEN Return(BoolVal(FALSE))
             ELSE /\ stack' = SetTop([Top EXCEPT !.queue = c.queue])
                  /\ UNCHANGED <<returned, call>>
    /\ UNCHANGED <<tictactoe, minesweeper, crossword>>

Ac3Done ==
    /\ Running("ac3", "loop")
    /\ Top.queue = <<>>
    /\ Return(BoolVal(TRUE))
    /\ UNCHANGED <<tictactoe, minesweeper, crossword, domains>>

(***************************************************************************)
(* backtrack                                                               *)
(***************************************************************************)
\* Lines 238-243.  A call that is not complete has an unassigned slot: the
\* words of an assignment are words of the vocabulary, never empty.
BacktrackStart ==
    /\ Running("backtrack", "start")
    /\ IF AssignmentComplete(Top.assignment)
       THEN Return(DictVal(Top.assignment))
       ELSE /\ \E var \in SelectUnassignedVariable(domains, Top.assignment) :
                 \E values \in OrderDomainValues(domains, var, Top.assignment) :
                    stack' = SetTop([Top EXCEPT !.pc = "loop", !.var = var,
                                                !.values = values])
            /\ UNCHANGED <<returned, call>>
    /\ UNCHANGED <<tictactoe, minesweeper, crossword, domains>>

\* Lines 243-250: the next value; a consistent one is propagated by ac3 on
\* the arcs (var, n), an inconsistent one is dropped (line 257).
BacktrackTry ==
    /\ Running("backtrack", "loop")
    /\ Top.values # <<>>
    /\ IF Consistent(NewAssignment(Top))
       THEN \E arcs \in Orderings(ArcsOf(Top.var)) :
               stack' = Append(SetTop([Top EXCEPT !.pc = "inferred",
                                                  !.saved = domains]),
                               Ac3Frame(arcs))
       ELSE stack' = SetTop([Top EXCEPT !.values = Tail(Top.values),
                                        !.saved = domains])
    /\ UNCHANGED <<tictactoe, minesweeper, crossword, domains, returned, call>>

\* Line 258: the for loop is over.
BacktrackExhausted ==
    /\ Running("backtrack", "loop")
    /\ Top.values = <<>>
    /\ Return(NoneVal)
    /\ UNCHANGED <<tictactoe, minesweeper, crossword, domains>>

\* Lines 250-253: ac3 has returned inference.
BacktrackInferred ==
    /\ Running("backtrack", "inferred")
    /\ IF Truthy(returned)
       THEN stack' = Append(SetTop([Top EXCEPT !.pc = "recursed"]),
                            BacktrackFrame(NewAssignment(Top)))
       ELSE stack' = SetTop([Top EXCEPT !.pc = "loop", !.values = Tail(Top.values)])
    /\ UNCHANGED <<tictactoe, minesweeper, crossword, domains, returned, call>>

\* Lines 253-257: the recursive call has returned result.
BacktrackRecursed ==
    /\ Running("backtrack", "recursed")
    /\ IF IsNotFalse(returned)
       THEN Return(returned)
       ELSE /\ stack' = SetTop([Top EXCEPT !.pc = "loop", !.values = Tail(Top.values)])
            /\ UNCHANGED <<returned, call>>
    /\ UNCHANGED <<tictactoe, minesweeper, crossword, domains>>

(***************************************************************************)
(* consistent and assignment_complete called by the client                 *)
(***************************************************************************)
\* The assignments a client hands over: any slots, each with a word of the
\* word list, of the right length or not, or with the empty word.
ClientAssignments ==
    UNION {[D -> crossword.words \cup {<<>>}] : D \in SUBSET crossword.variables}

\* The frame's queue holds the keys of the dictionary still to be visited,
\* in the dictionary's (insertion) order.
CallConsistent ==
    /\ Idle
    /\ \E assignment \in ClientAssignments :
          \E order \in Orderings(DOMAIN assignment) :
             /\ stack' = <<[Frame("consistent", "loop") EXCEPT
                               !.assignment = assignment, !.queue = order]>>
             /\ call' = [NewCall("consistent", <<>>) EXCEPT
                            !.assignment = assignment]
    /\ UNCHANGED <<tictactoe, minesweeper, crossword, domains, returned>>

ConsistentIterate ==
    /\ Running("consistent", "loop")
    /\ Top.queue # <<>>
    /\ \E o \in ConsistentBody(Top.assignment, Head(Top.queue)) :
          CASE o = "continue" ->
                 /\ stack' = SetTop([Top EXCEPT !.queue = Tail(Top.queue)])
                 /\ UNCHANGED <<returned, call>>
            [] o = "False" -> Return(BoolVal(FALSE))
            [] o = "IndexError" ->
                 /\ stack' = <<>>
                 /\ call' = [call EXCEPT !.status = "raised"]
                 /\ UNCHANGED returned
    /\ UNCHANGED <<tictactoe, minesweeper, crossword, domains>>

ConsistentDone ==
    /\ Running("consistent", "loop")
    /\ Top.queue = <<>>
    /\ Return(BoolVal(TRUE))
    /\ UNCHANGED <<tictactoe, minesweeper, crossword, domains>>

CallAssignmentComplete ==
    /\ Idle
    /\ \E assignment \in ClientAssignments :
          /\ stack' = <<[Frame("assignment_complete", "loop") EXCEPT
                            !.assignment = assignment]>>
          /\ call' = [NewCall("assignment_complete", <<>>) EXCEPT
                         !.assignment = assignment]
    /\ UNCHANGED <<tictactoe, minesweeper, crossword, domains, returned>>

AssignmentCompleteReturn ==
    /\ Running("assignment_complete", "loop")
    /\ Return(BoolVal(AssignmentComplete(Top.assignment)))
    /\ UNCHANGED <<tictactoe, minesweeper, crossword, domains>>

(***************************************************************************)
(* tictactoe.py                                                            *)
(*                                                                         *)
(* A board is a function from the row, 0..2, to a function from the        *)
(* column, 0..2, to a mark: board[r][c] as in the code.  EMPTY is Python's *)
(* None, which is also what winner returns when it finds no winner.        *)
(***************************************************************************)
X == "X"

O == "O"

EMPTY == "None"

Cells == 0..2

initial_state == [r \in Cells |-> [c \in Cells |-> EMPTY]]

\* Lines 26-36: X moves when both players have as many marks.
Player(b) ==
    LET nums_x == Cardinality({p \in Cells \X Cells : b[p[1]][p[2]] = X})
        nums_o == Cardinality({p \in Cells \X Cells : b[p[1]][p[2]] = O})
    IN  IF nums_x = nums_o THEN X ELSE O

Actions(b) == {p \in Cells \X Cells : b[p[1]][p[2]] = EMPTY}

\* Lines 59-63, for an action of Actions(b).
Result(b, action) == [b EXCEPT ![action[1]][action[2]] = Player(b)]

\* Lines 75-87: the first row whose three cells are equal decides, then the
\* first such column, then the diagonals; three empty cells are equal.
Winner(b) ==
    LET rows == {r \in Cells : b[r][0] = b[r][1] /\ b[r][1] = b[r][2]}
        cols == {c \in Cells : b[0][c] = b[1][c] /\ b[1][c] = b[2][c]}
    IN  IF rows # {} THEN b[CHOOSE r \in rows : \A q \in rows : r <= q][0]
        ELSE IF cols # {} THEN b[0][CHOOSE c \in cols : \A q \in cols : c <= q]
        ELSE IF b[0][0] = b[1][1] /\ b[1][1] = b[2][2] THEN b[1][1]
        ELSE IF b[0][2] = b[1][1] /\ b[1][1] = b[2][0] THEN b[1][1]
        ELSE EMPTY

Terminal(b) ==
    IF Winner(b) \in {X, O}
    THEN TRUE
    ELSE \A r \in Cells : \A c \in Cells : b[r][c] # EMPTY

Utility(b) ==
    LET win == Winner(b)
    IN  IF win = X THEN 1 ELSE IF win = O THEN -1 ELSE 0

\* max() and min() of a non-empty set of integers.
SetMax(S) == CHOOSE m \in S : \A n \in S : n <= m

SetMin(S) == CHOOSE m \in S : \A n \in S : m <= n

\* Lines 144-164.  max_v starts at -16 and min_v at 16; the order in which
\* the actions are visited does not show in the maximum.
RECURSIVE minimax_X(_), minimax_O(_)
minimax_X(b) ==
    IF Terminal(b)
    THEN Utility(b)
    ELSE SetMax({-16} \cup {minimax_O(Result(b, action)) : action \in Actions(b)})

minimax_O(b) ==
    IF Terminal(b)
    THEN Utility(b)
    ELSE SetMin({16} \cup {minimax_X(Result(b, action)) : action \in Actions(b)})

\* Lines 167-181: the loops of max_X_index and min_O_index from position i
\* (0-based) on; they return the position of the first greatest (least)
\* value of list v.
RECURSIVE MaxLoop(_, _, _, _)
MaxLoop(v, i, ix, maxV) ==
    IF i >= Len(v) THEN ix
    ELSE IF v[i + 1] > maxV THEN MaxLoop(v, i + 1, i, v[i + 1])
    ELSE MaxLoop(v, i + 1, ix, maxV)

max_X_index(v) == MaxLoop(v, 0, 0, v[1])

RECURSIVE MinLoop(_, _, _, _)
MinLoop(v, i, ix, minV) ==
    IF i >= Len(v) THEN ix
    ELSE IF v[i + 1] < minV THEN MinLoop(v, i + 1, i, v[i + 1])
    ELSE MinLoop(v, i + 1, ix, minV)

min_O_index(v) == MinLoop(v, 0, 0, v[1])

\* The cells in row-major order, and the cells of S in that order.
RowMajor ==
    <<<<0, 0>>, <<0, 1>>, <<0, 2>>, <<1, 0>>, <<1, 1>>, <<1, 2>>,
      <<2, 0>>, <<2, 1>>, <<2, 2>>>>

InRowMajor(S) ==
    LET In(p) == p \in S IN SelectSeq(RowMajor, In)

\* The orders in which the set actset is iterated (twice, in the same
\* order: lines 123 and 125).  The index functions return the first best
\* position, so which action comes back depends on the first element and on
\* the order of the others only through which of the best comes first: one
\* order for each first element gives every action that any order gives.
ActionOrders(actset) ==
    {<<first>> \o InRowMajor(actset \ {first}) : first \in actset}

\* minimax returns None: no action.
NoAction == <<>>

\* Lines 117-129: the actions minimax(b) can return.
Minimax(b) ==
    IF Terminal(b)
    THEN {NoAction}
    ELSE IF Player(b) = X
    THEN {LET val == [k \in 1..Len(order) |-> minimax_O(Result(b, order[k]))]
          IN  order[max_X_index(val) + 1] : order \in ActionOrders(Actions(b))}
    ELSE {LET val == [k \in 1..Len(order) |-> minimax_X(Result(b, order[k]))]
          IN  order[min_O_index(val) + 1] : order \in ActionOrders(Actions(b))}

\* A variant without the deepcopy of line 61: tmp is the list it was given.
ResultCallInPlace(b, action) ==
    IF action \notin Actions(b)
    THEN [raised |-> TRUE, value |-> b, input |-> b]
    ELSE [raised |-> FALSE, value |-> Result(b, action), input |-> Result(b, action)]

\* Lines 57-65, for any action: whether ValueError is raised, the board
\* returned, and the list that was handed in as it is after the call.  The
\* raise of line 65 is never reached: an action of actions(board) is an
\* empty cell.
ResultCall(b, action) ==
    IF action \notin Actions(b)
    THEN [raised |-> TRUE, value |-> b, input |-> b]
    ELSE [raised |-> FALSE, value |-> Result(b, action), input |-> b]

\* The actions a caller hands to result: the cells, and pairs next to the
\* board.
Moves == (-1..3) \X (-1..3)

NoMove == [status |-> "init", action |-> NoAction, before |-> initial_state,
           input |-> initial_state]

\* One move of the game: while terminal does not stop it, the caller asks
\* for result(board, action) and goes on with the board returned, or with
\* the board it had when ValueError is raised.
Play ==
    /\ ~Terminal(board)
    /\ \E action \in Moves :
          LET r == ResultCall(board, action)
          IN  /\ board' = IF r.raised THEN r.input ELSE r.value
              /\ move' = [status |-> IF r.raised THEN "raised" ELSE "returned",
                          action |-> action, before |-> board, input |-> r.input]
    /\ UNCHANGED <<minesweeper, crossword, domains, stack, returned, call>>

(***************************************************************************)
(* minesweeper.py                                                          *)
(*                                                                         *)
(* A cell is a pair <<i, j>>, a sentence a record of its cells and its     *)
(* count, the knowledge base a sequence of sentences.                      *)
(***************************************************************************)
\* The board: height rows and width columns; the most calls of
\* add_knowledge in one game.
Height == 2

Width == 3

MaxCalls == 4

BoardCells == (0..(Height - 1)) \X (0..(Width - 1))

\* The cells within one row and one column of cell, cell included, on the
\* board or not: the two range loops of lines 66-67 and 306-307.
Block(cell) == ((cell[1] - 1)..(cell[1] + 1)) \X ((cell[2] - 1)..(cell[2] + 1))

\* Minesweeper.nearby_mines.
NearbyMines(mines, cell) ==
    Cardinality({c \in Block(cell) \ {cell} : c \in BoardCells /\ c \in mines})

Sentence(cells, count) == [cells |-> cells, count |-> count]

\* A variant that takes every cell of a sentence with a count for a mine.
KnownMinesAnyCount(sentence) ==
    IF sentence.count # 0 THEN sentence.cells ELSE {}

\* Sentence.known_mines and Sentence.known_safes.
KnownMines(sentence) ==
    IF Cardinality(sentence.cells) = sentence.count /\ sentence.count # 0
    THEN sentence.cells
    ELSE {}

KnownSafes(sentence) == IF sentence.count = 0 THEN sentence.cells ELSE {}

\* MinesweeperAI.__init__.
NewAI == [moves_made |-> {}, mines |-> {}, safes |-> {}, knowledge |-> <<>>]

\* MinesweeperAI.mark_mine for every cell of S, one after the other, with
\* Sentence.mark_mine on every sentence: a cell in the sentence leaves it and
\* takes one off its count.
MarkMines(a, S) ==
    [a EXCEPT !.mines = a.mines \cup S,
              !.knowledge =
                  [k \in 1..Len(a.knowledge) |->
                      Sentence(a.knowledge[k].cells \ S,
                               a.knowledge[k].count
                                   - Cardinality(a.knowledge[k].cells \cap S))]]

\* MinesweeperAI.mark_safe for every cell of S, with Sentence.mark_safe.
MarkSafes(a, S) ==
    [a EXCEPT !.safes = a.safes \cup S,
              !.knowledge =
                  [k \in 1..Len(a.knowledge) |->
                      Sentence(a.knowledge[k].cells \ S, a.knowledge[k].count)]]

\* state(cell): lines 250-252.
StateOf(a, cell) == MarkSafes([a EXCEPT !.moves_made = a.moves_made \cup {cell}], {cell})

\* cell_neighbors: the cells of the block that are on the board and neither
\* safe nor moved on (known mines are among them), and the number of known
\* mines in the block.
CellNeighbors(a, cell) ==
    [tmp |-> {c \in Block(cell) :
                c \in BoardCells /\ c \notin a.safes /\ c \notin a.moves_made},
     count_mines |-> Cardinality(Block(cell) \cap a.mines)]

\* actions(cell, count): the new sentence is appended.
WithSentence(a, cell, count) ==
    LET n == CellNeighbors(a, cell)
    IN  [a EXCEPT !.knowledge =
            Append(a.knowledge, Sentence(n.tmp, count - n.count_mines))]

\* mark_safe_or_mine from the k-th sentence on: its known mines are marked,
\* then its known safes, as the sentence is after the mines were marked.
RECURSIVE MarkSafeOrMine(_, _)
MarkSafeOrMine(a, k) ==
    IF k > Len(a.knowledge)
    THEN a
    ELSE LET a1 == MarkMines(a, KnownMines(a.knowledge[k]))
             a2 == MarkSafes(a1, KnownSafes(a1.knowledge[k]))
         IN  MarkSafeOrMine(a2, k + 1)

\* new_inference from the k-th sentence on; the sentences appended are
\* visited too.
RECURSIVE NewInference(_, _, _)
NewInference(knowledge, k, subset) ==
    IF k > Len(knowledge)
    THEN knowledge
    ELSE LET sentence == knowledge[k]
         IN  IF /\ subset.cells \subseteq sentence.cells
                /\ subset.count > 0
                /\ sentence.count > 0
                /\ subset # sentence
             THEN NewInference(
                      Append(knowledge,
                             Sentence(sentence.cells \ subset.cells,
                                      sentence.count - subset.count)),
                      k + 1, subset)
             ELSE NewInference(knowledge, k + 1, subset)

\* add_knowledge(cell, count).  subSentence is the object that actions
\* appended, as mark_safe_or_mine has left it.
AddKnowledge(a, cell, count) ==
    LET a1 == WithSentence(StateOf(a, cell), cell, count)
        position == Len(a1.knowledge)
        a2 == MarkSafeOrMine(a1, 1)
    IN  [a2 EXCEPT !.knowledge = NewInference(a2.knowledge, 1, a2.knowledge[position])]

\* None, returned by make_safe_move.
NoCell == <<>>

\* A variant that does not look at self.mines.
MakeSafeMoveAmongSafes(a) ==
    LET moves == {move_cell \in a.safes : move_cell \notin a.moves_made}
    IN  IF moves = {} THEN {NoCell} ELSE moves

\* make_safe_move: the first cell of safes, in the order the set is
\* iterated, that is neither a known mine nor moved on.
MakeSafeMove(a) ==
    LET moves == {move_cell \in a.safes :
                    move_cell \notin a.mines /\ move_cell \notin a.moves_made}
    IN  IF moves = {} THEN {NoCell} ELSE moves

NotAsked == [asked |-> FALSE, cell |-> NoCell]

\* The game tells the AI about a cell that is not a mine and the number of
\* mines around it.
CallAddKnowledge ==
    /\ field.calls < MaxCalls
    /\ \E cell \in BoardCells \ field.mines :
          ai' = AddKnowledge(ai, cell, NearbyMines(field.mines, cell))
    /\ field' = [field EXCEPT !.calls = field.calls + 1]
    /\ safe_move' = NotAsked
    /\ UNCHANGED <<tictactoe, crossword, domains, stack, returned, call>>

CallMakeSafeMove ==
    /\ \E cell \in MakeSafeMove(ai) : safe_move' = [asked |-> TRUE, cell |-> cell]
    /\ UNCHANGED <<field, ai, tictactoe, crossword, domains, stack, returned, call>>

(***************************************************************************)
(* Specifications                                                          *)
(***************************************************************************)
Step ==
    \/ SolveNode
    \/ SolveAc3
    \/ SolveBacktrack
    \/ SolveReturn
    \/ Ac3Iterate
    \/ Ac3Done
    \/ BacktrackStart
    \/ BacktrackTry
    \/ BacktrackExhausted
    \/ BacktrackInferred
    \/ BacktrackRecursed

Created(structures, lists) ==
    /\ \E s \in structures, W \in lists :
          /\ crossword = Puzzle(s, W)
          /\ domains = InitialDomains(Puzzle(s, W))
          /\ call = [op |-> "init", arcs |-> <<>>, assignment |-> EmptyAssignment,
                     entry |-> InitialDomains(Puzzle(s, W)), prev |-> "init",
                     status |-> "returned", val |-> NoneVal]
    /\ stack = <<>>
    /\ returned = NoneVal
    /\ board = initial_state
    /\ move = NoMove

\* A client that calls the methods of one CrosswordCreator, one call at a
\* time, in any order.
\* No game of Minesweeper is played.
NoSweeper ==
    /\ field = [mines |-> {}, calls |-> 0]
    /\ ai = NewAI
    /\ safe_move = NotAsked

Init == Created({Single, Corner, Hook, Path}, WordLists) /\ NoSweeper

Next ==
    \/ CallSolve
    \/ CallEnforceNodeConsistency
    \/ CallRevise
    \/ CallAc3
    \/ CallBacktrack
    \/ Step

Spec == Init /\ [][Next]_vars

\* main(): the creator is built and solve() is called on it, once.
SolveInit ==
    /\ \/ Created({Single, Corner, Path}, WordLists)
       \/ Created({Ring}, RingWordLists)
    /\ NoSweeper

CallSolveFresh == call.op = "init" /\ CallSolve

SolveNext == CallSolveFresh \/ Step

SolveSpec == SolveInit /\ [][SolveNext]_vars

\* solve() runs to its end without being suspended: a step that can be
\* taken is taken.  The puzzles are those of one, two and three slots in a
\* row.
SolveLiveInit == Created({Single, Corner, Path}, WordLists) /\ NoSweeper

SolveLiveSpec == SolveLiveInit /\ [][SolveNext]_vars /\ WF_vars(Step)

\* A client that builds the creator and asks consistent or
\* assignment_complete about one assignment of its own making; neither
\* method reads or writes the domains.
CallConsistentFresh == call.op = "init" /\ CallConsistent

CallAssignmentCompleteFresh == call.op = "init" /\ CallAssignmentComplete

QueryNext ==
    \/ CallConsistentFresh
    \/ ConsistentIterate
    \/ ConsistentDone
    \/ CallAssignmentCompleteFresh
    \/ AssignmentCompleteReturn

QuerySpec == Init /\ [][QueryNext]_vars

\* A game of tic-tac-toe from initial_state(); the creator is an idle one
\* without words.
GameInit == Created({Single}, {{}}) /\ NoSweeper

GameNext == Play

GameSpec == GameInit /\ [][GameNext]_vars

\* A game of Minesweeper on a board with any mines: the AI is told about
\* cells that are not mines, in any order and more than once, and asked
\* for a safe move.
SweeperInit ==
    /\ Created({Single}, {{}})
    /\ \E mines \in SUBSET BoardCells : field = [mines |-> mines, calls |-> 0]
    /\ ai = NewAI
    /\ safe_move = NotAsked

SweeperNext == CallAddKnowledge \/ CallMakeSafeMove

SweeperSpec == SweeperInit /\ [][SweeperNext]_vars

(***************************************************************************)
(* Properties                                                              *)
(***************************************************************************)
ArcSet(q) == {q[k] : k \in 1..Len(q)}

\* A satisfying assignment of the puzzle: every slot has a word of the word
\* list with the slot's length, and the words agree where slots overlap.
IsSolution(a) ==
    /\ DOMAIN a = crossword.variables
    /\ \A x \in crossword.variables :
          /\ a[x] \in crossword.words
          /\ Len(a[x]) = crossword.length[x]
    /\ \A x \in crossword.variables, y \in crossword.variables :
          (x # y /\ crossword.overlaps[<<x, y>>] # <<>>) =>
              Char(a[x], crossword.overlaps[<<x, y>>][1])
                  = Char(a[y], crossword.overlaps[<<x, y>>][2])

Solvable == \E a \in [crossword.variables -> crossword.words] : IsSolution(a)

SolveReturned ==
    call.op = "solve" /\ call.prev = "init" /\ call.status = "returned"

\* C1: an assignment returned by solve() on a freshly built creator gives
\* every slot a word of the slot's length, and the words of two overlapping
\* slots carry the same letter in the shared cell.
SolveReturnsSolution ==
    (SolveReturned /\ call.val # NoneVal) =>
        (call.val.kind = "dict" /\ IsSolution(call.val.dict))

SolveReturnsSolutionWitness ==
    /\ SolveReturned
    /\ call.val.kind = "dict"
    /\ Cardinality(crossword.variables) >= 3
    /\ Cardinality(crossword.words) >= 3

\* C2: backtracking is complete: when the puzzle has a satisfying
\* assignment, solve() returns an assignment, not None.
SolveFindsSolution ==
    (SolveReturned /\ Solvable) => call.val.kind = "dict"

\* C3: on a puzzle with at least one slot and no satisfying assignment,
\* solve() ends by returning None; it does not raise.
SolveUnsolvableReturnsNone ==
    (/\ call.op = "solve"
     /\ call.prev = "init"
     /\ call.status # "running"
     /\ crossword.variables # {}
     /\ ~Solvable)
        => (call.status = "returned" /\ call.val = NoneVal)

SolveUnsolvableReturnsNoneWitness ==
    /\ SolveReturned
    /\ ~Solvable
    /\ call.val = NoneVal
    /\ \E x \in crossword.variables :
          domains[x] = {} /\ \E w \in crossword.words : Len(w) = crossword.length[x]

\* The current value of the backtrack frame on top of the stack has just
\* been given up: its propagation failed, or the recursive call on it
\* returned None.
Abandoned ==
    \/ Running("backtrack", "inferred") /\ ~Truthy(returned)
    \/ Running("backtrack", "recursed") /\ returned = NoneVal

\* C4: when backtrack gives a value up, the domains are the ones that held
\* just before the value was tried.
AbandonRestoresDomains == Abandoned => domains = Top.saved

\* C5: after ac3 on the arcs (var, n) reports success for var := value,
\* every word left in the domain of an unassigned neighbour n agrees with
\* value in the cell shared with var.
InferencePrunesNeighbours ==
    (Running("backtrack", "inferred") /\ Truthy(returned)) =>
        \A n \in Neighbors(Top.var) \ DOMAIN NewAssignment(Top) :
            \A w \in domains[n] :
                Char(w, crossword.overlaps[<<Top.var, n>>][2])
                    = Char(Head(Top.values), crossword.overlaps[<<Top.var, n>>][1])

ArcConsistent(d) ==
    \A x \in crossword.variables, y \in crossword.variables :
        (x # y /\ crossword.overlaps[<<x, y>>] # <<>>) =>
            \A w \in d[x] : \E w2 \in d[y] :
                Char(w, crossword.overlaps[<<x, y>>][1])
                    = Char(w2, crossword.overlaps[<<x, y>>][2])

\* ac3 is at `return True`.
Ac3ReturnsTrue == Running("ac3", "loop") /\ Top.queue = <<>>

\* C6: when ac3 seeded with all arcs returns True, the domains are arc
\* consistent.
Ac3TrueIsArcConsistent ==
    (Ac3ReturnsTrue /\ ArcSet(Top.arcs) = AllArcs) => ArcConsistent(domains)

Ac3TrueIsArcConsistentWitness ==
    /\ Ac3ReturnsTrue
    /\ ArcSet(Top.arcs) = AllArcs
    /\ Cardinality(crossword.variables) >= 3
    /\ \E x \in crossword.variables :
          domains[x] # call.entry[x] /\ Cardinality(domains[x]) >= 1
    /\ NodeConsistent(call.entry)

\* C7: ac3 returns True only if no domain is empty when it returns.
Ac3TrueNoEmptyDomain ==
    Ac3ReturnsTrue => \A x \in crossword.variables : domains[x] # {}

\* C8: no step adds a word to a domain.
DomainsOnlyShrink ==
    [][\A x \in crossword.variables : domains'[x] \subseteq domains[x]]_vars

DomainsOnlyShrinkWitness ==
    /\ call.op = "solve"
    /\ Running("backtrack", "loop")
    /\ \E x \in crossword.variables :
          domains[x] # InitialDomains(crossword)[x] /\ domains[x] # {}
    /\ \E x \in crossword.variables :
          \E w \in InitialDomains(crossword)[x] \ domains[x] :
              Len(w) = crossword.length[x]

BacktrackAfterAc3FalseIsNone ==
    (call.op = "backtrack" /\ call.prev = "ac3_false" /\ call.status = "returned")
        => call.val = NoneVal

BacktrackAfterAc3FalseIsNoneWitness ==
    /\ call.op = "backtrack"
    /\ call.prev = "ac3_false"
    /\ call.status = "returned"
    /\ \E x \in crossword.variables : domains[x] # {}

\* C11: a second enforce_node_consistency right after one that completed
\* completes too and leaves every domain as the first run left it.
EnforceNodeConsistencyIdempotent ==
    [][(/\ Idle
        /\ call.op = "enforce_node_consistency"
        /\ call.status = "returned"
        /\ stack' = <<>>
        /\ call'.op = "enforce_node_consistency")
       => (call'.status = "returned" /\ domains' = domains)]_vars

\* The words of the list that have the length of slot var.
RightLength(var) == {word \in crossword.words : Len(word) = crossword.length[var]}

\* C12: enforce_node_consistency on the domains __init__ built completes and
\* leaves in each domain exactly the words of the list that have the slot's
\* length.
NodeConsistencyOnFreshDomains ==
    (call.op = "enforce_node_consistency" /\ call.prev = "init")
        => /\ call.status = "returned"
           /\ \A var \in crossword.variables : domains[var] = RightLength(var)

NodeConsistencyOnFreshDomainsWitness ==
    /\ call.op = "enforce_node_consistency"
    /\ call.prev = "init"
    /\ call.status = "returned"
    /\ \E u \in crossword.variables, v \in crossword.variables :
          /\ domains[u] # {} /\ domains[v] # {}
          /\ \E w \in crossword.words \ domains[u] : Len(w) > crossword.length[u]
          /\ \E w \in crossword.words \ domains[v] : Len(w) < crossword.length[v]

\* The arguments of the client's call revise(x, y), and the words of the
\* domain of x, as it was when the call was made, that no word of the domain
\* of y supports.
RevisedX == call.arcs[1][1]

RevisedY == call.arcs[1][2]

Unsupported ==
    LET overlap == crossword.overlaps[<<RevisedX, RevisedY>>]
    IN  {w \in call.entry[RevisedX] :
            \A w2 \in call.entry[RevisedY] :
                Char(w, overlap[1]) # Char(w2, overlap[2])}

\* C13: revise(x, y) on overlapping slots removes from the domain of x
\* exactly the unsupported words and returns True iff it removed one.
ReviseRemovesUnsupported ==
    (call.op = "revise" /\ crossword.overlaps[<<RevisedX, RevisedY>>] # <<>>)
        => /\ domains[RevisedX] = call.entry[RevisedX] \ Unsupported
           /\ call.val = BoolVal(domains[RevisedX] # call.entry[RevisedX])

ReviseRemovesUnsupportedWitness ==
    /\ call.op = "revise"
    /\ crossword.overlaps[<<RevisedX, RevisedY>>] # <<>>
    /\ call.val = BoolVal(TRUE)
    /\ domains[RevisedX] # {}
    /\ Cardinality(call.entry[RevisedY]) >= 2

\* C14: revise(x, y) changes the domain of x only; without an overlap it
\* changes nothing and returns False; the overlap (0, 0) is an overlap.
ReviseChangesOnlyX ==
    call.op = "revise" =>
        LET overlap == crossword.overlaps[<<RevisedX, RevisedY>>]
        IN  /\ \A v \in crossword.variables \ {RevisedX} :
                  domains[v] = call.entry[v]
            /\ overlap = <<>> =>
                  (domains = call.entry /\ call.val = BoolVal(FALSE))
            /\ overlap = <<0, 0>> =>
                  /\ domains[RevisedX] = call.entry[RevisedX] \ Unsupported
                  /\ call.val = BoolVal(Unsupported # {})

ReviseChangesOnlyXWitness ==
    /\ call.op = "revise"
    /\ crossword.overlaps[<<RevisedX, RevisedY>>] = <<0, 0>>
    /\ call.val = BoolVal(TRUE)
    /\ domains[RevisedX] # {}

\* revise on two slots that do not overlap has been called on non-empty
\* domains.
ReviseWithoutOverlapReached ==
    /\ call.op = "revise"
    /\ crossword.overlaps[<<RevisedX, RevisedY>>] = <<>>
    /\ domains[RevisedX] # {}
    /\ domains[RevisedY] # {}

\* A partial assignment whose keys are the slots of D.
AssignmentOn(D) ==
    [v \in D |-> CHOOSE w \in Vocabulary : Len(w) = crossword.length[v]]

\* v is unassigned, has the fewest values among the unassigned slots and,
\* among the unassigned slots with that many values, the most neighbours.
MinimumRemainingMaximumDegree(d, assigned, v) ==
    LET unassigned == crossword.variables \ assigned
    IN  /\ v \in unassigned
        /\ \A u \in unassigned : Cardinality(d[v]) <= Cardinality(d[u])
        /\ \A u \in unassigned :
              Cardinality(d[u]) = Cardinality(d[v]) =>
                  Cardinality(Neighbors(u)) <= Cardinality(Neighbors(v))

\* C15: on every partial assignment that leaves a slot unassigned, on the
\* domains a client finds between two calls and on those backtrack finds
\* when it starts, select_unassigned_variable returns an unassigned slot with the fewest
\* remaining values and, among those, the most neighbours.
SelectReturnsMinimumRemainingMaximumDegree ==
    (Idle \/ Running("backtrack", "start")) =>
        \A D \in SUBSET crossword.variables :
            D # crossword.variables =>
                \A v \in SelectUnassignedVariable(domains, AssignmentOn(D)) :
                    MinimumRemainingMaximumDegree(domains, D, v)

\* backtrack has selected a slot where another unassigned slot has as many
\* values and fewer neighbours, and a third one has more values.
SelectReturnsMinimumRemainingMaximumDegreeWitness ==
    /\ Running("backtrack", "loop")
    /\ domains = Top.saved
    /\ Top.var \in SelectUnassignedVariable(domains, Top.assignment)
    /\ \E u \in crossword.variables \ DOMAIN Top.assignment :
          /\ Cardinality(domains[u]) = Cardinality(domains[Top.var])
          /\ Cardinality(Neighbors(u)) < Cardinality(Neighbors(Top.var))
    /\ \E u \in crossword.variables \ DOMAIN Top.assignment :
          Cardinality(domains[u]) > Cardinality(domains[Top.var])

\* The step in which backtrack has selected its slot and ordered the values:
\* lines 241-243.
BacktrackOrdersValues ==
    /\ Running("backtrack", "start")
    /\ Len(stack') = Len(stack)
    /\ stack'[Len(stack)].pc = "loop"

\* The number of pairs (n, w2), n an unassigned neighbour of var and w2 a
\* word of its domain, that word w of var rules out.
RuledOut(d, var, assigned, w) ==
    Cardinality({p \in UNION {{<<n, w2>> : w2 \in d[n]} :
                                n \in Neighbors(var) \ assigned} :
                    Char(w, crossword.overlaps[<<var, p[1]>>][1])
                        # Char(p[2], crossword.overlaps[<<var, p[1]>>][2])})

\* C16: the list order_domain_values returns to backtrack is in ascending
\* order of the number of words of the unassigned neighbours' domains that
\* each word rules out.
OrderDomainValuesAscending ==
    [][BacktrackOrdersValues =>
          LET f == stack'[Len(stack)]
          IN  \A a, b \in 1..Len(f.values) :
                  a < b => RuledOut(domains, f.var, DOMAIN f.assignment, f.values[a])
                              <= RuledOut(domains, f.var, DOMAIN f.assignment,
                                          f.values[b])]_vars

\* The slot whose values backtrack has ordered has an assigned and an
\* unassigned neighbour, and its first and last value rule out different
\* numbers of words.
OrderDomainValuesAscendingWitness ==
    /\ Running("backtrack", "loop")
    /\ domains = Top.saved
    /\ Top.values \in OrderDomainValues(domains, Top.var, Top.assignment)
    /\ Neighbors(Top.var) \cap DOMAIN Top.assignment # {}
    /\ Neighbors(Top.var) \ DOMAIN Top.assignment # {}
    /\ Len(Top.values) >= 2
    /\ RuledOut(domains, Top.var, DOMAIN Top.assignment, Top.values[1])
          < RuledOut(domains, Top.var, DOMAIN Top.assignment,
                     Top.values[Len(Top.values)])

\* C17: the list order_domain_values returns holds every word of the
\* slot's domain once and nothing else, and the call changes neither the
\* domains nor the assignment.
OrderDomainValuesIsPermutation ==
    [][BacktrackOrdersValues =>
          LET f == stack'[Len(stack)]
          IN  /\ {f.values[k] : k \in 1..Len(f.values)} = domains[f.var]
              /\ Len(f.values) = Cardinality(domains[f.var])
              /\ domains' = domains
              /\ f.assignment = Top.assignment]_vars

\* backtrack has ordered a domain in which two words rule out the same
\* number of words and a third one another number.
OrderDomainValuesIsPermutationWitness ==
    /\ Running("backtrack", "loop")
    /\ domains = Top.saved
    /\ Top.values \in OrderDomainValues(domains, Top.var, Top.assignment)
    /\ Len(Top.values) >= 3
    /\ \E a, b, c \in 1..Len(Top.values) :
          /\ a # b
          /\ RuledOut(domains, Top.var, DOMAIN Top.assignment, Top.values[a])
                = RuledOut(domains, Top.var, DOMAIN Top.assignment, Top.values[b])
          /\ RuledOut(domains, Top.var, DOMAIN Top.assignment, Top.values[a])
                # RuledOut(domains, Top.var, DOMAIN Top.assignment, Top.values[c])

\* Every word of assignment a has its slot's length and every two
\* overlapping slots of a have the same letter in their shared cell.
LengthsAndOverlapsAgree(a) ==
    /\ \A x \in DOMAIN a : Len(a[x]) = crossword.length[x]
    /\ \A x \in DOMAIN a, y \in DOMAIN a :
          (x # y /\ crossword.overlaps[<<x, y>>] # <<>>) =>
              Char(a[x], crossword.overlaps[<<x, y>>][1])
                  = Char(a[y], crossword.overlaps[<<x, y>>][2])

\* C18: consistent(assignment) returns, whatever the words of the
\* assignment, and returns True exactly when the lengths and the overlaps
\* agree.
ConsistentDecides ==
    (call.op = "consistent" /\ call.status # "running") =>
        /\ call.status = "returned"
        /\ call.val = BoolVal(LengthsAndOverlapsAgree(call.assignment))

\* C19: assignment_complete(assignment) returns True exactly when every
\* slot is a key of the assignment with a non-empty word.
AssignmentCompleteDecides ==
    (call.op = "assignment_complete" /\ call.status = "returned") =>
        call.val = BoolVal(\A v \in crossword.variables :
                              v \in DOMAIN call.assignment
                                  /\ Len(call.assignment[v]) > 0)

\* assignment_complete has returned on an assignment that has every slot as
\* a key, one of them with the empty word.
AssignmentCompleteDecidesWitness ==
    /\ call.op = "assignment_complete"
    /\ call.status = "returned"
    /\ Cardinality(crossword.variables) >= 2
    /\ DOMAIN call.assignment = crossword.variables
    /\ \E v \in crossword.variables : call.assignment[v] = <<>>
    /\ \E v \in crossword.variables : call.assignment[v] # <<>>

\* Player p has three marks in a row, a column or a diagonal of board.
HasLine(p) ==
    \/ \E r \in Cells : \A c \in Cells : board[r][c] = p
    \/ \E c \in Cells : \A r \in Cells : board[r][c] = p
    \/ \A k \in Cells : board[k][k] = p
    \/ \A k \in Cells : board[k][2 - k] = p

\* C20: on every board of a game, winner returns X when X has a line, O
\* when O has one, and None only when neither has; terminal is true exactly
\* when a player has a line or no cell is empty.
WinnerFindsLine ==
    /\ HasLine(X) => Winner(board) = X
    /\ HasLine(O) => Winner(board) = O
    /\ Winner(board) = EMPTY => (~HasLine(X) /\ ~HasLine(O))
    /\ Terminal(board) = (HasLine(X) \/ HasLine(O) \/ Actions(board) = {})

\* Player p has three marks in a row, a column or a diagonal of board b.
LineOn(b, p) ==
    \/ \E r \in Cells : \A c \in Cells : b[r][c] = p
    \/ \E c \in Cells : \A r \in Cells : b[r][c] = p
    \/ \A k \in Cells : b[k][k] = p
    \/ \A k \in Cells : b[k][2 - k] = p

\* The game is over under the rules of tic-tac-toe.
GameOver(b) == LineOn(b, X) \/ LineOn(b, O) \/ Actions(b) = {}

\* The value of board b under the rules when both sides play their best:
\* 1 when X wins, -1 when O wins, 0 for a draw.
RECURSIVE GameValue(_)
GameValue(b) ==
    IF LineOn(b, X) THEN 1
    ELSE IF LineOn(b, O) THEN -1
    ELSE IF Actions(b) = {} THEN 0
    ELSE IF Player(b) = X
    THEN SetMax({GameValue(Result(b, a)) : a \in Actions(b)})
    ELSE SetMin({GameValue(Result(b, a)) : a \in Actions(b)})

\* Board b is reached under the rules: nobody played on after a line.  At
\* most one player has a line, and that player made the last move.
ReachedByTheRules(b) ==
    /\ ~(LineOn(b, X) /\ LineOn(b, O))
    /\ LineOn(b, X) => Player(b) = O
    /\ LineOn(b, O) => Player(b) = X

\* The most empty cells of a board on which minimax is asked.
MaxEmptyCells == 6

\* C21: on a board reached under the rules, minimax returns None when the
\* game is over and otherwise an empty cell whose board has the best value
\* for the player to move among the boards of all empty cells.
MinimaxIsOptimal ==
    (Cardinality(Actions(board)) <= MaxEmptyCells /\ ReachedByTheRules(board)) =>
        IF GameOver(board)
        THEN Minimax(board) = {NoAction}
        ELSE LET values == {GameValue(Result(board, a)) : a \in Actions(board)}
                 best == IF Player(board) = X THEN SetMax(values) ELSE SetMin(values)
             IN  \A action \in Minimax(board) :
                    /\ action \in Actions(board)
                    /\ GameValue(Result(board, action)) = best

\* The number of marks of player p on board b.
Marks(b, p) == Cardinality({c \in Cells \X Cells : b[c[1]][c[2]] = p})

\* C22: result raises ValueError and changes nothing when the action is not
\* an empty cell; otherwise the board it returns is the one it was given
\* with the mark of the player to move in that cell, and the board it was
\* given is as before.  X has as many marks as O or one more, and the turn
\* changes with every move, X moving first.
ResultPlacesOneMark ==
    /\ move.status = "raised" =>
          /\ move.action \notin Actions(move.before)
          /\ move.input = move.before
          /\ board = move.before
    /\ move.status = "returned" =>
          /\ move.action \in Actions(move.before)
          /\ move.input = move.before
          /\ \A c \in Cells \X Cells :
                board[c[1]][c[2]] = IF c = move.action
                                    THEN Player(move.before)
                                    ELSE move.before[c[1]][c[2]]
          /\ Player(board) # Player(move.before)
    /\ move.status \in {"init", "raised", "returned"}
    /\ Marks(board, X) - Marks(board, O) \in {0, 1}
    /\ Player(board) = IF Marks(board, X) = Marks(board, O) THEN X ELSE O
    /\ Player(initial_state) = X

\* result has put the fifth mark on the board.
ResultPlacesOneMarkWitness ==
    /\ move.status = "returned"
    /\ Marks(board, X) = 3
    /\ Marks(board, O) = 2

\* result has raised ValueError for a cell that holds a mark.
ResultRaisesOnMarkedCell ==
    /\ move.status = "raised"
    /\ move.action \in Cells \X Cells
    /\ Marks(board, O) = 2

\* C23: make_safe_move returns None or a cell that is not a mine of the
\* board and has not been moved on.
SafeMoveIsSafe ==
    (safe_move.asked /\ safe_move.cell # NoCell) =>
        /\ safe_move.cell \notin field.mines
        /\ safe_move.cell \notin ai.moves_made

\* make_safe_move has returned a cell while the AI holds a mine among its
\* safes.
SafeMoveIsSafeWitness ==
    /\ safe_move.asked
    /\ safe_move.cell # NoCell
    /\ ai.safes \cap field.mines # {}

\* C24: no cell of safes is a mine of the board, and no cell is both in
\* safes and in mines.
SafesAreSafe ==
    /\ ai.safes \cap field.mines = {}
    /\ ai.safes \cap ai.mines = {}

\* C25: every cell of mines is a mine of the board, and the count of every
\* sentence is between 0 and the number of its cells.
MinesAreMines ==
    /\ ai.mines \subseteq field.mines
    /\ \A k \in 1..Len(ai.knowledge) :
          /\ 0 <= ai.knowledge[k].count
          /\ ai.knowledge[k].count <= Cardinality(ai.knowledge[k].cells)

\* The AI knows a mine and holds a sentence, drawn by new_inference or left
\* by the marking, with a count and more cells than mines.
MinesAreMinesWitness ==
    /\ ai.mines # {}
    /\ \E k \in 1..Len(ai.knowledge) :
          /\ ai.knowledge[k].count > 0
          /\ ai.knowledge[k].count < Cardinality(ai.knowledge[k].cells)
    /\ Len(ai.knowledge) > field.calls

\* The arc that the next iteration of ac3 pops.
NextArc == Head(Top.queue)

\* seq holds every element of S once and nothing else.
Enumerates(seq, S) ==
    /\ Len(seq) = Cardinality(S)
    /\ {seq[k] : k \in 1..Len(seq)} = S

\* C26: an iteration of ac3 on the arc (x, y) that removes nothing from
\* domains[x] only pops the arc; one that empties domains[x] returns False
\* with the rest of the queue unprocessed (no other domain is touched); one
\* that shrinks domains[x] and leaves words appends (z, x) once for every
\* neighbour z of x other than y, and nothing else.
Ac3RequeuesNeighbours ==
    [][(Running("ac3", "loop") /\ Top.queue # <<>>) =>
          LET x == NextArc[1]
              y == NextArc[2]
          IN  /\ \A v \in crossword.variables \ {x} : domains'[v] = domains[v]
              /\ IF domains'[x] = domains[x]
                 THEN /\ Len(stack') = Len(stack)
                      /\ stack'[Len(stack)].queue = Tail(Top.queue)
                 ELSE IF domains'[x] = {}
                 THEN /\ stack' = Pop
                      /\ returned' = BoolVal(FALSE)
                 ELSE /\ Len(stack') = Len(stack)
                      /\ \E n \in 0..Cardinality(crossword.variables) :
                            /\ Len(stack'[Len(stack)].queue) = Len(Top.queue) - 1 + n
                            /\ SubSeq(stack'[Len(stack)].queue, 1, Len(Top.queue) - 1)
                                  = Tail(Top.queue)
                            /\ Enumerates(
                                  SubSeq(stack'[Len(stack)].queue, Len(Top.queue),
                                         Len(Top.queue) - 1 + n),
                                  {<<z, x>> : z \in Neighbors(x) \ {y}})]_vars

\* ac3 is running on a queue that is no shorter than the arcs it was called
\* with although it has removed words: arcs were appended.
Ac3RequeuesNeighboursWitness ==
    /\ Running("ac3", "loop")
    /\ domains # Top.saved
    /\ Len(Top.queue) >= Len(Top.arcs)
    /\ Top.queue # <<>>

\* ac3 has returned False while arcs were left in the queue.
Ac3ReturnsAtOnceReached ==
    /\ call.op = "ac3"
    /\ call.status = "returned"
    /\ call.val = BoolVal(FALSE)
    /\ \E x \in crossword.variables : domains[x] = {}
    /\ \E x \in crossword.variables, y \in crossword.variables :
          /\ x # y
          /\ crossword.overlaps[<<x, y>>] # <<>>
          /\ Revise(domains, x, y).revised

\* The complete assignments with the words of d that satisfy the puzzle:
\* every word has the length of its slot and the words of two crossing slots
\* agree on the shared cell.
Satisfying(d) ==
    {a \in [crossword.variables -> UNION {d[v] : v \in crossword.variables}] :
        /\ \A v \in crossword.variables :
              a[v] \in d[v] /\ Len(a[v]) = crossword.length[v]
        /\ \A x \in crossword.variables : \A y \in Neighbors(x) :
              Char(a[x], crossword.overlaps[<<x, y>>][1])
                 = Char(a[y], crossword.overlaps[<<x, y>>][2])}

\* C28: a call of revise, or of ac3 on all arcs or on the arcs of one slot,
\* leaves the satisfying assignments within the domains as they were: none
\* of their words is removed at any point of the call.
PropagationKeepsSolutions ==
    call.op \in {"revise", "ac3"} => Satisfying(domains) = Satisfying(call.entry)

\* ac3 has returned after removing words from domains within which there is
\* a satisfying assignment.
PropagationKeepsSolutionsWitness ==
    /\ call.op = "ac3"
    /\ call.status = "returned"
    /\ domains # call.entry
    /\ Satisfying(call.entry) # {}

\* The frames that backtrack has added by calling itself.
RecursionDepth ==
    Cardinality({k \in 2..Len(stack) :
                    stack[k].fn = "backtrack" /\ stack[k - 1].fn = "backtrack"})

\* C27: solve() terminates: every call of ac3 ends (its queue is empty or it
\* returns False), solve ends with what backtrack returned, an assignment or
\* None, and backtrack never holds more frames added by recursion than there
\* are slots.
SolveTerminates ==
    /\ [](RecursionDepth <= Cardinality(crossword.variables))
    /\ Running("ac3", "loop") ~> ~Running("ac3", "loop")
    /\ (call.op = "solve" /\ call.status = "running")
          ~> (call.op = "solve" /\ call.status # "running" /\ Idle)

\* solve has returned an assignment for a puzzle of three slots.
SolveTerminatesWitness ==
    /\ call.op = "solve"
    /\ call.status = "returned"
    /\ call.val.kind = "dict"
    /\ Cardinality(crossword.variables) >= 3
    /\ Idle

\* backtrack has called itself once for every slot.
FullDepthReached ==
    /\ RecursionDepth = Cardinality(crossword.variables)
    /\ Cardinality(crossword.variables) >= 3

\* solve has returned None: backtrack found no value to go on with.
SolveFailsReached ==
    /\ call.op = "solve"
    /\ call.status = "returned"
    /\ call.val = NoneVal
    /\ Idle

====
